---- MODULE Spec2Model ----
(***************************************************************************)
(* Model of the Kitchen class (src/Kitchen.cpp, src/Kitchen.hpp): a bag of *)
(* Dish values with two running aggregates, total_prep_time_ and           *)
(* count_elaborate_.  Kitchen inherits from ArrayBag<Dish>; ArrayBag and   *)
(* Dish are not part of the sources at hand, so add, remove, contains and  *)
(* getCurrentSize follow the documented contract of the collection.        *)
(*                                                                         *)
(* items_ holds the occupied slots items_[0 .. item_count_-1] of the       *)
(* array; the C++ index i is the sequence index i+1.  Slots at or beyond   *)
(* item_count_ are never read by any operation and are not represented.    *)
(*                                                                         *)
(* op, ret and pre record the last call, its result and the state before   *)
(* it; scan records the array reads and the iterations of the scan loop of *)
(* the last bulk removal.                                                  *)
(***************************************************************************)
EXTENDS Integers, Sequences, FiniteSets, TLC

VARIABLES items_, item_count_, total_prep_time_, count_elaborate_, op, ret, pre, scan

vars == <<items_, item_count_, total_prep_time_, count_elaborate_, op, ret, pre, scan>>

(***************************************************************************)
(* Bounds of the model.                                                    *)
(***************************************************************************)
Capacity == 3
MaxTotal == 300
MaxPctDishes == 13

(***************************************************************************)
(* Dish values.  A Dish is compared by value over all of its fields; the   *)
(* ingredient list is represented by its size, the only thing the Kitchen  *)
(* reads from it.                                                          *)
(***************************************************************************)
CuisineTypes == {"ITALIAN", "MEXICAN", "CHINESE", "INDIAN", "AMERICAN", "FRENCH", "OTHER"}

Dish(name, cuisine, ingredients, prep) ==
    [name |-> name, cuisine |-> cuisine, ingredients |-> ingredients, prep |-> prep]

Dishes ==
    { Dish(1, "ITALIAN", 5, 60),
      Dish(2, "MEXICAN", 5, 50),
      Dish(3, "ITALIAN", 4, 70),
      Dish(4, "OTHER",   6, 65),
      Dish(5, "MEXICAN", 2, 50) }

Thresholds == {50, 60, 66, 100}

Labels == CuisineTypes \cup {"other", "DESSERT"}

RemoveModes == {"shift", "swap"}

getPrepTime(d) == d.prep
getIngredientsSize(d) == d.ingredients
getCuisineType(d) == d.cuisine

(***************************************************************************)
(* ArrayBag<Dish>                                                          *)
(***************************************************************************)
getCurrentSize(n) == n

getIndexOf(items, d) ==
    IF \E k \in 1..Len(items) : items[k] = d
    THEN (CHOOSE k \in 1..Len(items) :
              items[k] = d /\ \A m \in 1..(k-1) : items[m] # d) - 1
    ELSE -1

contains(items, d) == getIndexOf(items, d) > -1

\* add: rejected when an equal dish is present or the bag is full,
\* otherwise the dish is appended.
add(items, d) ==
    IF Len(items) < Capacity /\ ~contains(items, d)
    THEN [success |-> TRUE,  items |-> Append(items, d)]
    ELSE [success |-> FALSE, items |-> items]

\* remove: deletes the first entry equal to d and closes the gap, either by
\* shifting the tail left or by moving the last entry into the hole.
remove(items, d, mode) ==
    LET idx == getIndexOf(items, d)
        n   == Len(items)
    IN  IF idx = -1
        THEN [success |-> FALSE, items |-> items]
        ELSE [success |-> TRUE,
              items   |-> [k \in 1..(n-1) |->
                             IF mode = "shift"
                             THEN (IF k < idx + 1 THEN items[k] ELSE items[k+1])
                             ELSE (IF k = idx + 1 THEN items[n] ELSE items[k])]]

(***************************************************************************)
(* Kitchen                                                                 *)
(***************************************************************************)
Snapshot ==
    [items |-> items_, count |-> item_count_,
     total |-> total_prep_time_, elaborate |-> count_elaborate_]

\* No scan loop has run in the last call.
NoScan == [reads |-> {}, iterations |-> 0]

Init ==
    /\ items_ = << >>
    /\ item_count_ = 0
    /\ total_prep_time_ = 0
    /\ count_elaborate_ = 0
    /\ op = [name |-> "Kitchen", arg |-> 0]
    /\ ret = 0
    /\ pre = [items |-> << >>, count |-> 0, total |-> 0, elaborate |-> 0]
    /\ scan = NoScan

\* newOrder with the preparation-time bound of the elaborate test exclusive.
newOrder_ExclusivePrepBound(a_dish) ==
    LET r == add(items_, a_dish)
        success == r.success
    IN  /\ items_' = r.items
        /\ item_count_' = Len(r.items)
        /\ total_prep_time_' =
              IF success THEN total_prep_time_ + getPrepTime(a_dish)
                         ELSE total_prep_time_
        /\ count_elaborate_' =
              IF success /\ getIngredientsSize(a_dish) >= 5 /\ getPrepTime(a_dish) > 60
              THEN count_elaborate_ + 1
              ELSE count_elaborate_
        /\ op' = [name |-> "newOrder", arg |-> a_dish]
        /\ ret' = success
        /\ pre' = Snapshot
        /\ scan' = NoScan

\* newOrder adding the preparation time whether or not the dish was added.
newOrder_UnguardedPrepTime(a_dish) ==
    LET r == add(items_, a_dish)
        success == r.success
    IN  /\ items_' = r.items
        /\ item_count_' = Len(r.items)
        /\ total_prep_time_' = total_prep_time_ + getPrepTime(a_dish)
        /\ count_elaborate_' =
              IF success /\ getIngredientsSize(a_dish) >= 5 /\ getPrepTime(a_dish) >= 60
              THEN count_elaborate_ + 1
              ELSE count_elaborate_
        /\ op' = [name |-> "newOrder", arg |-> a_dish]
        /\ ret' = success
        /\ pre' = Snapshot
        /\ scan' = NoScan

\* newOrder counting an elaborate dish whether or not the dish was added.
newOrder_UnguardedElaborate(a_dish) ==
    LET r == add(items_, a_dish)
        success == r.success
    IN  /\ items_' = r.items
        /\ item_count_' = Len(r.items)
        /\ total_prep_time_' =
              IF success THEN total_prep_time_ + getPrepTime(a_dish)
                         ELSE total_prep_time_
        /\ count_elaborate_' =
              IF getIngredientsSize(a_dish) >= 5 /\ getPrepTime(a_dish) >= 60
              THEN count_elaborate_ + 1
              ELSE count_elaborate_
        /\ op' = [name |-> "newOrder", arg |-> a_dish]
        /\ ret' = success
        /\ pre' = Snapshot
        /\ scan' = NoScan

\* newOrder with the ingredient bound of the elaborate test exclusive.
newOrder_ExclusiveIngredientBound(a_dish) ==
    LET r == add(items_, a_dish)
        success == r.success
    IN  /\ items_' = r.items
        /\ item_count_' = Len(r.items)
        /\ total_prep_time_' =
              IF success THEN total_prep_time_ + getPrepTime(a_dish)
                         ELSE total_prep_time_
        /\ count_elaborate_' =
              IF success /\ getIngredientsSize(a_dish) > 5 /\ getPrepTime(a_dish) >= 60
              THEN count_elaborate_ + 1
              ELSE count_elaborate_
        /\ op' = [name |-> "newOrder", arg |-> a_dish]
        /\ ret' = success
        /\ pre' = Snapshot
        /\ scan' = NoScan

\* newOrder storing the dish in the next slot itself instead of calling add.
newOrder_DirectAppend(a_dish) ==
    /\ items_' = Append(items_, a_dish)
    /\ item_count_' = item_count_ + 1
    /\ total_prep_time_' = total_prep_time_ + getPrepTime(a_dish)
    /\ count_elaborate_' =
          IF getIngredientsSize(a_dish) >= 5 /\ getPrepTime(a_dish) >= 60
          THEN count_elaborate_ + 1
          ELSE count_elaborate_
    /\ op' = [name |-> "newOrder", arg |-> a_dish]
    /\ ret' = TRUE
    /\ pre' = Snapshot
    /\ scan' = NoScan

newOrder(a_dish) ==
    LET r == add(items_, a_dish)
        success == r.success
    IN  /\ items_' = r.items
        /\ item_count_' = Len(r.items)
        /\ total_prep_time_' =
              IF success THEN total_prep_time_ + getPrepTime(a_dish)
                         ELSE total_prep_time_
        /\ count_elaborate_' =
              IF success /\ getIngredientsSize(a_dish) >= 5 /\ getPrepTime(a_dish) >= 60
              THEN count_elaborate_ + 1
              ELSE count_elaborate_
        /\ op' = [name |-> "newOrder", arg |-> a_dish]
        /\ ret' = success
        /\ pre' = Snapshot
        /\ scan' = NoScan

\* serveDish updating the aggregates whether or not a dish was removed.
serveDish_Unguarded(a_dish, mode) ==
    LET r == remove(items_, a_dish, mode)
        remove_success == r.success
    IN  /\ items_' = r.items
        /\ item_count_' = Len(r.items)
        /\ total_prep_time_' = total_prep_time_ - getPrepTime(a_dish)
        /\ count_elaborate_' =
              IF getIngredientsSize(a_dish) >= 5 /\ getPrepTime(a_dish) >= 60
              THEN count_elaborate_ - 1
              ELSE count_elaborate_
        /\ op' = [name |-> "serveDish", arg |-> a_dish]
        /\ ret' = remove_success
        /\ pre' = Snapshot
        /\ scan' = NoScan

\* serveDish decrementing the elaborate count for every removed dish.
serveDish_AlwaysDecrements(a_dish, mode) ==
    LET r == remove(items_, a_dish, mode)
        remove_success == r.success
    IN  /\ items_' = r.items
        /\ item_count_' = Len(r.items)
        /\ total_prep_time_' =
              IF remove_success THEN total_prep_time_ - getPrepTime(a_dish)
                                ELSE total_prep_time_
        /\ count_elaborate_' =
              IF remove_success THEN count_elaborate_ - 1 ELSE count_elaborate_
        /\ op' = [name |-> "serveDish", arg |-> a_dish]
        /\ ret' = remove_success
        /\ pre' = Snapshot
        /\ scan' = NoScan

serveDish(a_dish, mode) ==
    LET r == remove(items_, a_dish, mode)
        remove_success == r.success
    IN  /\ items_' = r.items
        /\ item_count_' = Len(r.items)
        /\ total_prep_time_' =
              IF remove_success THEN total_prep_time_ - getPrepTime(a_dish)
                                ELSE total_prep_time_
        /\ count_elaborate_' =
              IF remove_success /\ getIngredientsSize(a_dish) >= 5 /\ getPrepTime(a_dish) >= 60
              THEN count_elaborate_ - 1
              ELSE count_elaborate_
        /\ op' = [name |-> "serveDish", arg |-> a_dish]
        /\ ret' = remove_success
        /\ pre' = Snapshot
        /\ scan' = NoScan

\* getPrepTimeSum adding up the preparation times of the entries on each call.
getPrepTimeSum_Recomputing ==
    LET sum[k \in 0..Len(items_)] ==
            IF k = 0 THEN 0 ELSE sum[k-1] + getPrepTime(items_[k])
    IN  /\ ret' = sum[Len(items_)]
        /\ op' = [name |-> "getPrepTimeSum", arg |-> 0]
        /\ pre' = Snapshot
        /\ scan' = NoScan
        /\ UNCHANGED <<items_, item_count_, total_prep_time_, count_elaborate_>>

getPrepTimeSum ==
    /\ ret' = total_prep_time_
    /\ op' = [name |-> "getPrepTimeSum", arg |-> 0]
    /\ pre' = Snapshot
    /\ scan' = NoScan
    /\ UNCHANGED <<items_, item_count_, total_prep_time_, count_elaborate_>>

elaborateDishCount ==
    /\ ret' = count_elaborate_
    /\ op' = [name |-> "elaborateDishCount", arg |-> 0]
    /\ pre' = Snapshot
    /\ scan' = NoScan
    /\ UNCHANGED <<items_, item_count_, total_prep_time_, count_elaborate_>>

\* static_cast<int>(x) for the rational x = num / den, den > 0:
\* truncation toward zero.
TruncToInt(num, den) ==
    IF num >= 0 THEN num \div den ELSE -((-num) \div den)

\* round(x) of <cmath> for the rational x = num / den, den > 0:
\* nearest integer, halves away from zero.
Round(num, den) ==
    IF num >= 0 THEN (2 * num + den) \div (2 * den)
                ELSE -((2 * (-num) + den) \div (2 * den))

\* The average truncated without the + 0.5.
AvgPrepTimeOf_Truncating(total, current_size) ==
    IF current_size = 0
    THEN 0
    ELSE TruncToInt(total, current_size)

\* average = total / current_size as a double; average + 0.5 is the
\* rational (2 * total + current_size) / (2 * current_size).
AvgPrepTimeOf(total, current_size) ==
    IF current_size = 0
    THEN 0
    ELSE TruncToInt(2 * total + current_size, 2 * current_size)

calculateAvgPrepTime ==
    /\ ret' = AvgPrepTimeOf(total_prep_time_, getCurrentSize(item_count_))
    /\ op' = [name |-> "calculateAvgPrepTime", arg |-> 0]
    /\ pre' = Snapshot
    /\ scan' = NoScan
    /\ UNCHANGED <<items_, item_count_, total_prep_time_, count_elaborate_>>

\* ceil(x) for the rational x = num / den, den > 0, num >= 0.
Ceil(num, den) == (num + den - 1) \div den

\* The percentage rounded up to 2 decimal places instead of to the nearest.
ElaboratePercentageOf_Ceiling(count, totalDishes) ==
    IF totalDishes = 0
    THEN 0
    ELSE Ceil(10000 * count, totalDishes)

\* The double result is represented by its value in hundredths of a percent:
\* percentage * 100 is the rational 10000 * count / totalDishes, and the
\* returned value is round(percentage * 100) / 100.0.
ElaboratePercentageOf(count, totalDishes) ==
    IF totalDishes = 0
    THEN 0
    ELSE Round(10000 * count, totalDishes)

calculateElaboratePercentage ==
    /\ ret' = ElaboratePercentageOf(count_elaborate_, getCurrentSize(item_count_))
    /\ op' = [name |-> "calculateElaboratePercentage", arg |-> 0]
    /\ pre' = Snapshot
    /\ scan' = NoScan
    /\ UNCHANGED <<items_, item_count_, total_prep_time_, count_elaborate_>>

\* The counting loop stopping one entry short of the end.
RECURSIVE TallyLoop_SkipsLast(_, _, _, _)
TallyLoop_SkipsLast(items, i, count, cuisineType) ==
    IF ~(i < Len(items) - 1)
    THEN count
    ELSE IF getCuisineType(items[i+1]) = cuisineType
         THEN TallyLoop_SkipsLast(items, i + 1, count + 1, cuisineType)
         ELSE TallyLoop_SkipsLast(items, i + 1, count, cuisineType)

\* The counting loop of tallyCuisineTypes from index i on.
RECURSIVE TallyLoop(_, _, _, _)
TallyLoop(items, i, count, cuisineType) ==
    IF ~(i < Len(items))
    THEN count
    ELSE IF getCuisineType(items[i+1]) = cuisineType
         THEN TallyLoop(items, i + 1, count + 1, cuisineType)
         ELSE TallyLoop(items, i + 1, count, cuisineType)

tallyCuisineTypes(cuisineType) ==
    /\ ret' = TallyLoop(items_, 0, 0, cuisineType)
    /\ op' = [name |-> "tallyCuisineTypes", arg |-> cuisineType]
    /\ pre' = Snapshot
    /\ scan' = NoScan
    /\ UNCHANGED <<items_, item_count_, total_prep_time_, count_elaborate_>>

\* The if / else-if chain of kitchenReport with the MEXICAN branch
\* incrementing the ITALIAN counter.
ReportSlot_MexicanIntoItalian(cuisine_type) ==
    IF cuisine_type = "ITALIAN" THEN 0
    ELSE IF cuisine_type = "MEXICAN" THEN 0
    ELSE IF cuisine_type = "CHINESE" THEN 2
    ELSE IF cuisine_type = "INDIAN" THEN 3
    ELSE IF cuisine_type = "AMERICAN" THEN 4
    ELSE IF cuisine_type = "FRENCH" THEN 5
    ELSE IF cuisine_type = "OTHER" THEN 6
    ELSE -1

\* The if / else-if chain of kitchenReport: the index of counts[] that is
\* incremented for a cuisine type, -1 when no branch is taken.
ReportSlot(cuisine_type) ==
    IF cuisine_type = "ITALIAN" THEN 0
    ELSE IF cuisine_type = "MEXICAN" THEN 1
    ELSE IF cuisine_type = "CHINESE" THEN 2
    ELSE IF cuisine_type = "INDIAN" THEN 3
    ELSE IF cuisine_type = "AMERICAN" THEN 4
    ELSE IF cuisine_type = "FRENCH" THEN 5
    ELSE IF cuisine_type = "OTHER" THEN 6
    ELSE -1

\* The counting loop of kitchenReport from index i on; counts[k] of the
\* code is counts[k+1] here.
RECURSIVE ReportLoop(_, _, _)
ReportLoop(items, i, counts) ==
    IF ~(i < Len(items))
    THEN counts
    ELSE LET slot == ReportSlot(getCuisineType(items[i+1]))
         IN  IF slot = -1
             THEN ReportLoop(items, i + 1, counts)
             ELSE ReportLoop(items, i + 1, [counts EXCEPT ![slot + 1] = @ + 1])

\* What kitchenReport writes to std::cout, as the sequence of the labelled
\* values in the order they are written.
ReportOutput(counts, avg, pct) ==
    << [label |-> "ITALIAN",  value |-> counts[1]],
       [label |-> "MEXICAN",  value |-> counts[2]],
       [label |-> "CHINESE",  value |-> counts[3]],
       [label |-> "INDIAN",   value |-> counts[4]],
       [label |-> "AMERICAN", value |-> counts[5]],
       [label |-> "FRENCH",   value |-> counts[6]],
       [label |-> "OTHER",    value |-> counts[7]],
       [label |-> "AVERAGE PREP TIME", value |-> avg],
       [label |-> "ELABORATE DISHES",  value |-> pct] >>

kitchenReport ==
    /\ ret' = ReportOutput(ReportLoop(items_, 0, <<0, 0, 0, 0, 0, 0, 0>>),
                           AvgPrepTimeOf(total_prep_time_, getCurrentSize(item_count_)),
                           ElaboratePercentageOf(count_elaborate_, getCurrentSize(item_count_)))
    /\ op' = [name |-> "kitchenReport", arg |-> 0]
    /\ pre' = Snapshot
    /\ scan' = NoScan
    /\ UNCHANGED <<items_, item_count_, total_prep_time_, count_elaborate_>>

\* The gap closed by moving the last entry into it instead of shifting.
ShiftLeft_MoveLast(items, i) ==
    [k \in 1..(Len(items) - 1) |-> IF k = i + 1 THEN items[Len(items)] ELSE items[k]]

\* The inner loop of both bulk removals followed by item_count_--:
\* for (j = i; j < size-1; ++j) items_[j] = items_[j+1].
ShiftLeft(items, i) ==
    [k \in 1..(Len(items) - 1) |-> IF k < i + 1 THEN items[k] ELSE items[k+1]]

\* The inner loop running to j < size instead of j < size-1.
InnerReads_ToSize(items, i) ==
    { [index |-> j + 1, size |-> Len(items)] : j \in i..(Len(items) - 1) }

\* The array reads of the inner loop: items_[j+1] for j = i .. size-2, each
\* with the size at the time of the read.
InnerReads(items, i) ==
    { [index |-> j + 1, size |-> Len(items)] : j \in i..(Len(items) - 2) }

\* One iteration of a scan loop added to the record of the rest of the loop.
Visit(rest, reads) ==
    [rest EXCEPT !.reads = @ \cup reads, !.iterations = @ + 1]

\* The scan loop without the step back of the index after a removal.
RECURSIVE BelowPrepTimeLoop_NoStepBack(_, _, _, _)
BelowPrepTimeLoop_NoStepBack(items, i, removedCount, threshold) ==
    IF ~(i < Len(items))
    THEN [items |-> items, removedCount |-> removedCount, reads |-> {}, iterations |-> 0]
    ELSE IF getPrepTime(items[i+1]) < threshold
         THEN Visit(BelowPrepTimeLoop_NoStepBack(ShiftLeft(items, i), i + 1, removedCount + 1, threshold),
                    {[index |-> i, size |-> Len(items)]} \cup InnerReads(items, i))
         ELSE Visit(BelowPrepTimeLoop_NoStepBack(items, i + 1, removedCount, threshold),
                    {[index |-> i, size |-> Len(items)]})

\* The scan loop of releaseDishesBelowPrepTime from index i on; on a match
\* the index is stepped back (i--) before the loop's ++i.  The result also
\* carries the reads items_[i] and items_[j+1] made and the number of
\* iterations of the loop.
RECURSIVE BelowPrepTimeLoop(_, _, _, _)
BelowPrepTimeLoop(items, i, removedCount, threshold) ==
    IF ~(i < Len(items))
    THEN [items |-> items, removedCount |-> removedCount, reads |-> {}, iterations |-> 0]
    ELSE IF getPrepTime(items[i+1]) < threshold
         THEN Visit(BelowPrepTimeLoop(ShiftLeft(items, i), (i - 1) + 1, removedCount + 1, threshold),
                    {[index |-> i, size |-> Len(items)]} \cup InnerReads(items, i))
         ELSE Visit(BelowPrepTimeLoop(items, i + 1, removedCount, threshold),
                    {[index |-> i, size |-> Len(items)]})

releaseDishesBelowPrepTime(threshold) ==
    LET r == BelowPrepTimeLoop(items_, 0, 0, threshold)
    IN  /\ items_' = r.items
        /\ item_count_' = Len(r.items)
        /\ ret' = r.removedCount
        /\ op' = [name |-> "releaseDishesBelowPrepTime", arg |-> threshold]
        /\ pre' = Snapshot
        /\ scan' = [reads |-> r.reads, iterations |-> r.iterations]
        /\ UNCHANGED <<total_prep_time_, count_elaborate_>>

ToUpper(str) ==
    IF str = "other" THEN "OTHER" ELSE str

\* The scan loop comparing the cuisine types without regard to case.
RECURSIVE CuisineTypeLoop_IgnoreCase(_, _, _, _)
CuisineTypeLoop_IgnoreCase(items, i, removed_count, cuisine_type) ==
    IF ~(i < Len(items))
    THEN [items |-> items, removed_count |-> removed_count, reads |-> {}, iterations |-> 0]
    ELSE IF ToUpper(getCuisineType(items[i+1])) = ToUpper(cuisine_type)
         THEN Visit(CuisineTypeLoop_IgnoreCase(ShiftLeft(items, i), (i - 1) + 1, removed_count + 1, cuisine_type),
                    {[index |-> i, size |-> Len(items)]} \cup InnerReads(items, i))
         ELSE Visit(CuisineTypeLoop_IgnoreCase(items, i + 1, removed_count, cuisine_type),
                    {[index |-> i, size |-> Len(items)]})

\* The scan loop of releaseDishesOfCuisineType from index i on, with the
\* reads made and the number of iterations.
RECURSIVE CuisineTypeLoop(_, _, _, _)
CuisineTypeLoop(items, i, removed_count, cuisine_type) ==
    IF ~(i < Len(items))
    THEN [items |-> items, removed_count |-> removed_count, reads |-> {}, iterations |-> 0]
    ELSE IF getCuisineType(items[i+1]) = cuisine_type
         THEN Visit(CuisineTypeLoop(ShiftLeft(items, i), (i - 1) + 1, removed_count + 1, cuisine_type),
                    {[index |-> i, size |-> Len(items)]} \cup InnerReads(items, i))
         ELSE Visit(CuisineTypeLoop(items, i + 1, removed_count, cuisine_type),
                    {[index |-> i, size |-> Len(items)]})

releaseDishesOfCuisineType(cuisine_type) ==
    LET r == CuisineTypeLoop(items_, 0, 0, cuisine_type)
    IN  /\ items_' = r.items
        /\ item_count_' = Len(r.items)
        /\ ret' = r.removed_count
        /\ op' = [name |-> "releaseDishesOfCuisineType", arg |-> cuisine_type]
        /\ pre' = Snapshot
        /\ scan' = [reads |-> r.reads, iterations |-> r.iterations]
        /\ UNCHANGED <<total_prep_time_, count_elaborate_>>

InsertStep ==
    \E d \in Dishes :
        /\ total_prep_time_ + getPrepTime(d) <= MaxTotal
        /\ newOrder(d)

RemoveStep == \E d \in Dishes, mode \in RemoveModes : serveDish(d, mode)

Next ==
    \/ InsertStep
    \/ RemoveStep
    \/ \E t \in Thresholds : releaseDishesBelowPrepTime(t)
    \/ \E c \in Labels : releaseDishesOfCuisineType(c)
    \/ getPrepTimeSum
    \/ elaborateDishCount
    \/ calculateAvgPrepTime
    \/ calculateElaboratePercentage
    \/ \E c \in Labels : tallyCuisineTypes(c)
    \/ kitchenReport

Spec == Init /\ [][Next]_vars

\* Only newOrder and serveDish (and the two aggregate getters).
NextInsertRemove ==
    \/ InsertStep
    \/ RemoveStep
    \/ getPrepTimeSum
    \/ elaborateDishCount

SpecInsertRemove == Init /\ [][NextInsertRemove]_vars

(***************************************************************************)
(* Inputs of the percentage computation: the kitchen after the insertion   *)
(* of n distinct dishes, the first e of them elaborate.                    *)
(***************************************************************************)
PctDish(i, elaborate) == Dish(i, "OTHER", IF elaborate THEN 5 ELSE 4, 60)

PctItems(n, e) == [i \in 1..n |-> PctDish(i, i <= e)]

InitPct ==
    \E n \in 0..MaxPctDishes : \E e \in 0..n :
        /\ items_ = PctItems(n, e)
        /\ item_count_ = n
        /\ total_prep_time_ = 60 * n
        /\ count_elaborate_ = e
        /\ op = [name |-> "Kitchen", arg |-> 0]
        /\ ret = 0
        /\ pre = [items |-> PctItems(n, e), count |-> n, total |-> 60 * n, elaborate |-> e]
        /\ scan = NoScan

NextPct == calculateElaboratePercentage

SpecPct == InitPct /\ [][NextPct]_vars

(***************************************************************************)
(* Reference definitions used by the properties.                           *)
(***************************************************************************)
Range(seq) == { seq[k] : k \in 1..Len(seq) }

IsElaborate(d) == d.ingredients >= 5 /\ d.prep >= 60

RECURSIVE SumOfPrepTimes(_)
SumOfPrepTimes(seq) ==
    IF seq = << >> THEN 0 ELSE seq[1].prep + SumOfPrepTimes(Tail(seq))

NumElaborate(seq) == Cardinality({ k \in 1..Len(seq) : IsElaborate(seq[k]) })

AggregatesMatch(items, total, elaborate) ==
    /\ total = SumOfPrepTimes(items)
    /\ elaborate = NumElaborate(items)

Unchanged == Snapshot = pre

(***************************************************************************)
(* C1: under newOrder and serveDish alone, starting from the empty         *)
(* kitchen, total_prep_time_ (and the value getPrepTimeSum returns) is the *)
(* sum of the preparation times of the contained dishes, and               *)
(* count_elaborate_ (and the value elaborateDishCount returns) is the      *)
(* number of contained dishes with >= 5 ingredients and prep time >= 60.   *)
(***************************************************************************)
C1_AggregatesTrackInsertRemove ==
    /\ AggregatesMatch(items_, total_prep_time_, count_elaborate_)
    /\ op.name = "getPrepTimeSum" => ret = SumOfPrepTimes(items_)
    /\ op.name = "elaborateDishCount" => ret = NumElaborate(items_)

C1_Witness ==
    /\ op.name = "elaborateDishCount"
    /\ ret = 1
    /\ Len(items_) = 3
    /\ total_prep_time_ = 180

(***************************************************************************)
(* C2: after releaseDishesBelowPrepTime on a kitchen whose aggregates      *)
(* matched its entries, the aggregates match the surviving entries.        *)
(***************************************************************************)
C2_BelowPrepTimeKeepsAggregates ==
    ( /\ op.name = "releaseDishesBelowPrepTime"
      /\ AggregatesMatch(pre.items, pre.total, pre.elaborate) )
    => AggregatesMatch(items_, total_prep_time_, count_elaborate_)

(***************************************************************************)
(* C3: after releaseDishesOfCuisineType on a kitchen whose aggregates      *)
(* matched its entries, the aggregates match the surviving entries.        *)
(***************************************************************************)
C3_CuisineTypeKeepsAggregates ==
    ( /\ op.name = "releaseDishesOfCuisineType"
      /\ AggregatesMatch(pre.items, pre.total, pre.elaborate) )
    => AggregatesMatch(items_, total_prep_time_, count_elaborate_)

(***************************************************************************)
(* C4: releaseDishesBelowPrepTime(threshold) removes exactly the entries   *)
(* with prep time < threshold: every entry with prep time >= threshold is  *)
(* still contained, nothing else is, and the returned value is the number  *)
(* of removed entries, which is the decrease of the size.                  *)
(***************************************************************************)
C4_BelowPrepTimeRemovesExactly ==
    op.name = "releaseDishesBelowPrepTime" =>
        LET keep == { k \in 1..Len(pre.items) : pre.items[k].prep >= op.arg }
            drop == { k \in 1..Len(pre.items) : pre.items[k].prep < op.arg }
        IN  /\ Range(items_) = { pre.items[k] : k \in keep }
            /\ Len(items_) = Cardinality(keep)
            /\ item_count_ = Len(items_)
            /\ ret = Cardinality(drop)
            /\ ret = pre.count - item_count_

C4_Witness ==
    /\ op.name = "releaseDishesBelowPrepTime"
    /\ Len(pre.items) = 3
    /\ pre.items[1].prep >= op.arg
    /\ pre.items[2].prep < op.arg
    /\ pre.items[3].prep < op.arg
    /\ ret = 2

(***************************************************************************)
(* C5: releaseDishesOfCuisineType(label) removes exactly the entries whose *)
(* cuisine type equals label (case-sensitive) and returns their number; a  *)
(* label outside the seven cuisine types removes nothing and returns 0.    *)
(***************************************************************************)
C5_CuisineTypeRemovesExactly ==
    op.name = "releaseDishesOfCuisineType" =>
        LET keep == { k \in 1..Len(pre.items) : pre.items[k].cuisine # op.arg }
            drop == { k \in 1..Len(pre.items) : pre.items[k].cuisine = op.arg }
        IN  /\ Range(items_) = { pre.items[k] : k \in keep }
            /\ Len(items_) = Cardinality(keep)
            /\ item_count_ = Len(items_)
            /\ ret = Cardinality(drop)
            /\ op.arg \notin CuisineTypes => (ret = 0 /\ items_ = pre.items)

C5_Witness ==
    /\ op.name = "releaseDishesOfCuisineType"
    /\ op.arg = "MEXICAN"
    /\ Len(pre.items) = 3
    /\ ret = 2
    /\ Len(items_) = 1

(***************************************************************************)
(* C6: newOrder of a dish equal to a contained one returns false and       *)
(* leaves entries, size, total_prep_time_ and count_elaborate_ unchanged.  *)
(***************************************************************************)
C6_DuplicateInsertRejected ==
    ( op.name = "newOrder" /\ op.arg \in Range(pre.items) )
    => ( ret = FALSE /\ Unchanged )

C6_Witness ==
    /\ op.name = "newOrder"
    /\ op.arg \in Range(pre.items)
    /\ IsElaborate(op.arg)
    /\ pre.count < Capacity

(***************************************************************************)
(* C7: newOrder on a kitchen that holds Capacity entries returns false and *)
(* leaves the whole state unchanged, also for a dish not yet contained.    *)
(***************************************************************************)
C7_InsertAtCapacityRejected ==
    ( op.name = "newOrder" /\ pre.count = Capacity )
    => ( ret = FALSE /\ Unchanged )

C7_Witness ==
    /\ op.name = "newOrder"
    /\ pre.count = Capacity
    /\ op.arg \notin Range(pre.items)
    /\ IsElaborate(op.arg)

(***************************************************************************)
(* C8: serveDish of a dish that is not contained returns false and leaves  *)
(* entries, size, total_prep_time_ and count_elaborate_ unchanged.         *)
(***************************************************************************)
C8_RemoveAbsentNoChange ==
    ( op.name = "serveDish" /\ op.arg \notin Range(pre.items) )
    => ( ret = FALSE /\ Unchanged )

C8_Witness ==
    /\ op.name = "serveDish"
    /\ op.arg \notin Range(pre.items)
    /\ IsElaborate(op.arg)
    /\ pre.count >= 1

(***************************************************************************)
(* C9: calculateAvgPrepTime returns 0 on the empty kitchen; otherwise it   *)
(* returns the integer nearest to total_prep_time_ / size, halves rounded  *)
(* up: the r with  total/size - 1/2 < r <= total/size + 1/2.  One dish of  *)
(* 60 gives 60, prep times 50, 70, 65 give 62, and 115 / 2 gives 58.       *)
(***************************************************************************)
C9_AvgPrepTimeRoundsHalfUp ==
    op.name = "calculateAvgPrepTime" =>
        /\ pre.count = 0 => ret = 0
        /\ (pre.count > 0 /\ pre.total >= 0) =>
              /\ 2 * pre.total - pre.count < 2 * pre.count * ret
              /\ 2 * pre.count * ret <= 2 * pre.total + pre.count
        /\ (pre.count = 1 /\ pre.total = 60) => ret = 60
        /\ (pre.count = 3 /\ pre.total = 185) => ret = 62
        /\ (pre.count = 2 /\ pre.total = 115) => ret = 58

C9_Witness ==
    /\ op.name = "calculateAvgPrepTime"
    /\ pre.count = 3
    /\ pre.total = 185
    /\ SumOfPrepTimes(pre.items) = 185
    /\ ret = 62

CountOfCuisine(seq, label) ==
    Cardinality({ k \in 1..Len(seq) : seq[k].cuisine = label })

C11_TallyCountsExactMatches ==
    op.name = "tallyCuisineTypes" =>
        /\ ret = CountOfCuisine(pre.items, op.arg)
        /\ op.arg \notin CuisineTypes => ret = 0
        /\ (\A k \in 1..Len(pre.items) : pre.items[k].cuisine # op.arg) => ret = 0

C11_Witness ==
    /\ op.name = "tallyCuisineTypes"
    /\ op.arg = "MEXICAN"
    /\ Len(pre.items) = 3
    /\ pre.items[3].cuisine = "MEXICAN"
    /\ ret = 2

(***************************************************************************)
(* C12: kitchenReport writes, in the order ITALIAN, MEXICAN, CHINESE,      *)
(* INDIAN, AMERICAN, FRENCH, OTHER, the number of contained entries of     *)
(* each cuisine type, then the average preparation time (nearest integer   *)
(* of total_prep_time_ / size, 0 when empty), then the elaborate           *)
(* percentage (nearest hundredth, 0 when empty); the seven counts add up   *)
(* to the size when every entry has one of the seven cuisine types.        *)
(***************************************************************************)
ReportOrder ==
    <<"ITALIAN", "MEXICAN", "CHINESE", "INDIAN", "AMERICAN", "FRENCH", "OTHER">>

C12_ReportCountsAndAggregates ==
    op.name = "kitchenReport" =>
        /\ Len(ret) = 9
        /\ \A k \in 1..7 :
              /\ ret[k].label = ReportOrder[k]
              /\ ret[k].value = CountOfCuisine(pre.items, ReportOrder[k])
        /\ ret[8].label = "AVERAGE PREP TIME"
        /\ pre.count = 0 => ret[8].value = 0
        /\ pre.count > 0 =>
              /\ 2 * pre.total - pre.count < 2 * pre.count * ret[8].value
              /\ 2 * pre.count * ret[8].value <= 2 * pre.total + pre.count
        /\ ret[9].label = "ELABORATE DISHES"
        /\ pre.count = 0 => ret[9].value = 0
        /\ pre.count > 0 =>
              /\ 2 * (10000 * pre.elaborate - pre.count * ret[9].value) <= pre.count
              /\ 2 * (pre.count * ret[9].value - 10000 * pre.elaborate) <= pre.count
        /\ (\A k \in 1..Len(pre.items) : pre.items[k].cuisine \in CuisineTypes) =>
              ret[1].value + ret[2].value + ret[3].value + ret[4].value
                 + ret[5].value + ret[6].value + ret[7].value = pre.count

C12_Witness ==
    /\ op.name = "kitchenReport"
    /\ pre.count = 3
    /\ ret[1].value = 1
    /\ ret[2].value = 1
    /\ ret[7].value = 1
    /\ ret[8].value = 58
    /\ ret[9].value = 6667

(***************************************************************************)
(* C13: newOrder of a dish that is not contained, on a kitchen below       *)
(* capacity, returns true, makes the dish contained, increases the size by *)
(* exactly 1 keeping every earlier entry, adds the dish's preparation time *)
(* to total_prep_time_, and increments count_elaborate_ by 1 exactly when  *)
(* the dish has >= 5 ingredients and preparation time >= 60.               *)
(***************************************************************************)
C13_SuccessfulInsert ==
    ( /\ op.name = "newOrder"
      /\ op.arg \notin Range(pre.items)
      /\ pre.count < Capacity )
    => /\ ret = TRUE
       /\ op.arg \in Range(items_)
       /\ Len(items_) = Len(pre.items) + 1
       /\ item_count_ = pre.count + 1
       /\ Range(pre.items) \subseteq Range(items_)
       /\ total_prep_time_ = pre.total + op.arg.prep
       /\ count_elaborate_ =
             pre.elaborate
               + (IF op.arg.ingredients >= 5 /\ op.arg.prep >= 60 THEN 1 ELSE 0)

C13_Witness ==
    /\ op.name = "newOrder"
    /\ ret = TRUE
    /\ pre.count = 2
    /\ op.arg.ingredients = 5
    /\ op.arg.prep = 60
    /\ count_elaborate_ = pre.elaborate + 1

(***************************************************************************)
(* C14: serveDish of a contained dish returns true, removes exactly that   *)
(* entry so the size drops by exactly 1 with every other entry still       *)
(* contained, subtracts the dish's preparation time from total_prep_time_, *)
(* and decrements count_elaborate_ by 1 exactly when the dish is elaborate.*)
(***************************************************************************)
C14_SuccessfulRemove ==
    ( op.name = "serveDish" /\ op.arg \in Range(pre.items) )
    => /\ ret = TRUE
       /\ Len(items_) = Len(pre.items) - 1
       /\ item_count_ = pre.count - 1
       /\ Range(items_) = Range(pre.items) \ {op.arg}
       /\ total_prep_time_ = pre.total - op.arg.prep
       /\ count_elaborate_ =
             pre.elaborate
               - (IF op.arg.ingredients >= 5 /\ op.arg.prep >= 60 THEN 1 ELSE 0)

C14_Witness ==
    /\ op.name = "serveDish"
    /\ ret = TRUE
    /\ pre.count = 3
    /\ pre.items[1] = op.arg
    /\ ~IsElaborate(op.arg)
    /\ count_elaborate_ = pre.elaborate

(***************************************************************************)
(* C15: in every reachable state the kitchen holds at most Capacity        *)
(* entries and no two contained entries are equal.                         *)
(***************************************************************************)
C15_BoundedAndDistinct ==
    /\ Len(items_) <= Capacity
    /\ item_count_ = Len(items_)
    /\ \A j, k \in 1..Len(items_) : j # k => items_[j] # items_[k]

C15_Witness ==
    /\ op.name = "newOrder"
    /\ ret = FALSE
    /\ Len(items_) = Capacity
    /\ op.arg \notin Range(items_)

(***************************************************************************)
(* C16: in every reachable state count_elaborate_ is at most the number of *)
(* entries, so calculateElaboratePercentage returns a value between 0 and  *)
(* 100 (0 and 10000 hundredths of a percent).                              *)
(***************************************************************************)
C16_ElaborateAtMostSize ==
    /\ count_elaborate_ <= item_count_
    /\ op.name = "calculateElaboratePercentage" => (0 <= ret /\ ret <= 10000)

(***************************************************************************)
(* C17: in every reachable state total_prep_time_ and count_elaborate_ are *)
(* non-negative (all dishes have a non-negative preparation time), and     *)
(* getPrepTimeSum, elaborateDishCount and calculateAvgPrepTime never       *)
(* return a negative value.                                                *)
(***************************************************************************)
C17_AggregatesNonNegative ==
    /\ total_prep_time_ >= 0
    /\ count_elaborate_ >= 0
    /\ op.name \in {"getPrepTimeSum", "elaborateDishCount", "calculateAvgPrepTime"}
          => ret >= 0

C17_Witness ==
    /\ op.name = "serveDish"
    /\ ret = TRUE
    /\ pre.total > SumOfPrepTimes(pre.items)
    /\ pre.elaborate > NumElaborate(pre.items)
    /\ IsElaborate(op.arg)
    /\ items_ = << >>

(***************************************************************************)
(* C18: after releaseDishesBelowPrepTime and releaseDishesOfCuisineType    *)
(* the surviving entries occupy the positions 0 .. size-1 in the relative  *)
(* order they had before the call.                                         *)
(***************************************************************************)
C18_BulkRemovalKeepsOrder ==
    /\ op.name = "releaseDishesBelowPrepTime" =>
          /\ items_ = SelectSeq(pre.items, LAMBDA d : d.prep >= op.arg)
          /\ item_count_ = Len(items_)
    /\ op.name = "releaseDishesOfCuisineType" =>
          /\ items_ = SelectSeq(pre.items, LAMBDA d : d.cuisine # op.arg)
          /\ item_count_ = Len(items_)

C18_Witness ==
    /\ op.name = "releaseDishesOfCuisineType"
    /\ Len(pre.items) = 3
    /\ pre.items[1].cuisine = op.arg
    /\ items_ = <<pre.items[2], pre.items[3]>>

(***************************************************************************)
(* C19: the scan loops of releaseDishesBelowPrepTime and                   *)
(* releaseDishesOfCuisineType terminate: they run exactly one iteration    *)
(* per entry held before the call, also when every entry matches and the   *)
(* kitchen becomes empty, and every read items_[i], items_[j+1] has an     *)
(* index within 0 .. size-1 for the size at the time of the read.          *)
(***************************************************************************)
C19_ScanTerminatesInBounds ==
    op.name \in {"releaseDishesBelowPrepTime", "releaseDishesOfCuisineType"} =>
        /\ scan.iterations = pre.count
        /\ \A r \in scan.reads : 0 <= r.index /\ r.index <= r.size - 1
        /\ ret = pre.count => items_ = << >>

C19_Witness ==
    /\ op.name = "releaseDishesBelowPrepTime"
    /\ pre.count = 3
    /\ ret = 3
    /\ items_ = << >>
    /\ scan.iterations = 3
    /\ [index |-> 2, size |-> 3] \in scan.reads

(***************************************************************************)
(* C20: getPrepTimeSum, calculateAvgPrepTime, elaborateDishCount,          *)
(* calculateElaboratePercentage, tallyCuisineTypes and kitchenReport leave *)
(* entries, size, total_prep_time_ and count_elaborate_ unchanged, and the *)
(* two getters return the stored running values.                           *)
(***************************************************************************)
Queries ==
    {"getPrepTimeSum", "calculateAvgPrepTime", "elaborateDishCount",
     "calculateElaboratePercentage", "tallyCuisineTypes", "kitchenReport"}

C20_QueriesReadOnly ==
    /\ op.name \in Queries => Unchanged
    /\ op.name = "getPrepTimeSum" => ret = pre.total
    /\ op.name = "elaborateDishCount" => ret = pre.elaborate

C20_Witness ==
    /\ op.name = "getPrepTimeSum"
    /\ pre.count = 2
    /\ pre.total # SumOfPrepTimes(pre.items)
    /\ ret = pre.total
    /\ Unchanged

====
